---- MODULE Spec2Model ----
(***************************************************************************)
(* Model of the lazy-start Minecraft reverse proxy "portal":              *)
(*   - the VarInt / string codec          (src/protocol/types.rs)          *)
(*   - the packet framer                  (src/protocol/mod.rs)            *)
(*   - the handshake/status/login packets (src/protocol/*.rs)              *)
(*   - the single-flight supervisor       (src/external_process.rs)        *)
(*   - the connection handler and loops   (src/main.rs)                    *)
(* Bytes are integers 0..255, buffers are sequences of bytes.  An i32 is   *)
(* an integer in -2^31 .. 2^31-1; 64- and 128-bit big-endian integers are  *)
(* kept as sequences of 16-bit limbs, most significant limb first.         *)
(***************************************************************************)
EXTENDS Integers, Sequences, FiniteSets, TLC

(***************************************************************************)
(* Sequence helpers                                                        *)
(***************************************************************************)
Take(s, n) == SubSeq(s, 1, n)

Drop(s, n) == SubSeq(s, n + 1, Len(s))

Min(a, b) == IF a < b THEN a ELSE b

Max(a, b) == IF a < b THEN b ELSE a

RECURSIVE Pow2(_)
Pow2(n) == IF n = 0 THEN 1 ELSE 2 * Pow2(n - 1)

RECURSIVE Flatten(_)
Flatten(ss) == IF ss = << >> THEN << >> ELSE Head(ss) \o Flatten(Tail(ss))

\* let x = v; F(x): v is evaluated once, before F is applied to it.
Bind(v, F(_)) == CHOOSE y \in {F(x) : x \in {v}} : TRUE

(***************************************************************************)
(* DecoderState (protocol/mod.rs): a byte slice and a read offset.  Every  *)
(* reader returns [st, val, offset]; st is "ok", an io::ErrorKind ("eof",  *)
(* "invalid", "unsupported") or "panic".                                   *)
(***************************************************************************)
Ok(v, off) == [st |-> "ok", val |-> v, offset |-> off]

Fail(kind, off) == [st |-> kind, val |-> << >>, offset |-> off]

\* DecoderState::bytes(count): UnexpectedEof when the view is too short.
bytes(buffer, offset, count) ==
    IF Len(buffer) < offset + count
    THEN Fail("eof", offset)
    ELSE Ok(SubSeq(buffer, offset + 1, offset + count), offset + count)

\* A reader that reports the end of the view as InvalidData.
read_exact_eof_invalid(buffer, offset, count) ==
    IF Len(buffer) < offset + count
    THEN Fail(IF Len(buffer) = offset THEN "invalid" ELSE "panic",
              Len(buffer))
    ELSE Ok(SubSeq(buffer, offset + 1, offset + count), offset + count)

\* Read::read_exact over DecoderState::read for a destination of count
\* bytes: read() takes min(count, remaining) bytes; none left is
\* UnexpectedEof, fewer than count makes copy_from_slice panic.
read_exact(buffer, offset, count) ==
    LET len == Min(count, Len(buffer) - offset)
    IN  IF len = 0 THEN Fail("eof", offset)
        ELSE IF len # count THEN Fail("panic", offset + len)
        ELSE bytes(buffer, offset, len)

\* A shift that loses bit 31 as well: the result is never negative.
shl7_unsigned(byte, i) ==
    IF i < 4 THEN (byte % 128) * Pow2(7 * i) ELSE (byte % 8) * Pow2(28)

\* (byte & 0x7f) << (i * 7) as an i32: bits shifted past bit 31 are lost,
\* bit 31 is the sign.
shl7(byte, i) ==
    LET low == byte % 128
    IN  IF i < 4 THEN low * Pow2(7 * i)
        ELSE ((low % 8) * Pow2(28))
             - (IF (low \div 8) % 2 = 1 THEN Pow2(30) ELSE 0)
             - (IF (low \div 8) % 2 = 1 THEN Pow2(30) ELSE 0)

RECURSIVE read_var_int_loop(_, _, _, _)
read_var_int_loop(buffer, offset, i, value) ==
    IF i = 5 THEN Fail("invalid", offset)
    ELSE LET r == read_exact(buffer, offset, 1)
         IN  IF r.st # "ok" THEN Fail(r.st, r.offset)
             ELSE LET byte == r.val[1]
                      v    == value + shl7(byte, i)
                  IN  IF byte < 128 THEN Ok(v, r.offset)
                      ELSE read_var_int_loop(buffer, r.offset, i + 1, v)

read_var_int(buffer, offset) == read_var_int_loop(buffer, offset, 0, 0)

\* The first index from i on that holds no ASCII byte, Len(b) + 1 when
\* there is none: a run of ASCII bytes is passed over in one go.
skip_ascii(b, i) ==
    LET stops == {k \in i..(Len(b) + 1) : k = Len(b) + 1 \/ b[k] >= 128}
    IN  CHOOSE k \in stops : \A m \in stops : k <= m

\* str::from_utf8: well-formed UTF-8 (no overlong forms, no surrogates,
\* nothing above U+10FFFF).
RECURSIVE from_utf8(_, _)
from_utf8(b, i) ==
    LET n == Len(b) - i + 1
        Cont(k) == k <= Len(b) /\ b[k] >= 128 /\ b[k] <= 191
        In(k, lo, hi) == k <= Len(b) /\ b[k] >= lo /\ b[k] <= hi
    IN  IF n <= 0 THEN TRUE
        ELSE IF b[i] < 128 THEN from_utf8(b, skip_ascii(b, i))
        ELSE IF b[i] >= 194 /\ b[i] <= 223
             THEN Cont(i + 1) /\ from_utf8(b, i + 2)
        ELSE IF b[i] = 224
             THEN In(i + 1, 160, 191) /\ Cont(i + 2) /\ from_utf8(b, i + 3)
        ELSE IF b[i] = 237
             THEN In(i + 1, 128, 159) /\ Cont(i + 2) /\ from_utf8(b, i + 3)
        ELSE IF b[i] >= 225 /\ b[i] <= 239
             THEN Cont(i + 1) /\ Cont(i + 2) /\ from_utf8(b, i + 3)
        ELSE IF b[i] = 240
             THEN In(i + 1, 144, 191) /\ Cont(i + 2) /\ Cont(i + 3)
                  /\ from_utf8(b, i + 4)
        ELSE IF b[i] >= 241 /\ b[i] <= 243
             THEN Cont(i + 1) /\ Cont(i + 2) /\ Cont(i + 3)
                  /\ from_utf8(b, i + 4)
        ELSE IF b[i] = 244
             THEN In(i + 1, 128, 143) /\ Cont(i + 2) /\ Cont(i + 3)
                  /\ from_utf8(b, i + 4)
        ELSE FALSE

read_string(buffer, offset) ==
    LET Str(s) ==
            IF s.st # "ok" THEN s
            ELSE IF ~from_utf8(s.val, 1) THEN Fail("invalid", s.offset)
            ELSE s
        Counted(len) ==
            IF len.st # "ok" THEN len
            ELSE IF len.val < 0 THEN Fail("invalid", len.offset)
            ELSE Bind(bytes(buffer, len.offset, len.val), Str)
    IN  Bind(read_var_int(buffer, offset), Counted)

\* Big-endian fixed-width integers.  read_u16 yields one 16-bit number;
\* the wider ones yield their 16-bit limbs, most significant first.
Limbs(bs) == [k \in 1..(Len(bs) \div 2) |-> bs[2 * k - 1] * 256 + bs[2 * k]]

LimbBytes(ls) ==
    [k \in 1..(2 * Len(ls)) |->
        IF k % 2 = 1 THEN ls[(k + 1) \div 2] \div 256
                     ELSE ls[k \div 2] % 256]

read_u16(buffer, offset) ==
    LET r == read_exact(buffer, offset, 2)
    IN  IF r.st # "ok" THEN r ELSE Ok(Limbs(r.val)[1], r.offset)

read_i64(buffer, offset) ==
    LET r == read_exact(buffer, offset, 8)
    IN  IF r.st # "ok" THEN r ELSE Ok(Limbs(r.val), r.offset)

read_u128(buffer, offset) ==
    LET r == read_exact(buffer, offset, 16)
    IN  IF r.st # "ok" THEN r ELSE Ok(Limbs(r.val), r.offset)

write_u16(v) == LimbBytes(<< v >>)

write_i64(ts) == LimbBytes(ts)

write_u128(u) == LimbBytes(u)

(***************************************************************************)
(* VarInt / string writers (protocol/types.rs)                             *)
(***************************************************************************)
RECURSIVE BitLen(_)
BitLen(n) == IF n = 0 THEN 0 ELSE 1 + BitLen(n \div 2)

var_int_size(int) ==
    LET bits == IF int < 0 THEN 32 ELSE BitLen(int)
    IN  Max((bits + 6) \div 7, 1)

\* Iterations of the write loop that are followed before the writer is
\* reported as not terminating.
MaxWriteIter == 6

\* int >>= 7 is an arithmetic shift: it rounds towards minus infinity.
RECURSIVE write_var_int_loop(_, _, _)
write_var_int_loop(int, out, fuel) ==
    LET byte == int % 128
        next == int \div 128
    IN  IF fuel = 0 THEN [st |-> "diverges", bytes |-> out]
        ELSE IF next # 0
             THEN write_var_int_loop(next, Append(out, byte + 128), fuel - 1)
             ELSE [st |-> "ok", bytes |-> Append(out, byte)]

write_var_int(int) == write_var_int_loop(int, << >>, MaxWriteIter)

string_size(string) == var_int_size(Len(string)) + Len(string)

Wrote(bs) == [st |-> "ok", bytes |-> bs]

\* Two writes in sequence; the second is not reached when the first fails.
Then(a, b) ==
    IF a.st # "ok" THEN a ELSE [st |-> b.st, bytes |-> a.bytes \o b.bytes]

write_string(string) == Then(write_var_int(Len(string)), Wrote(string))

(***************************************************************************)
(* Protocol messages.  A packet is a record with a "kind" field.           *)
(***************************************************************************)
\* A decoder that takes every unknown next state for Transfer.
next_state_of_lenient(n) ==
    CASE n = 1 -> "Status" [] n = 2 -> "Login" [] OTHER -> "Transfer"

\* match read_var_int(src)? { 1 => Status, 2 => Login, 3 => Transfer,
\*                            _ => InvalidData }
next_state_of(n) ==
    CASE n = 1 -> "Status" [] n = 2 -> "Login" [] n = 3 -> "Transfer"
      [] OTHER -> "invalid"

NextStateNumber(s) ==
    IF s = "Status" THEN 1 ELSE IF s = "Login" THEN 2 ELSE 3

Handshake(version, address, port, next_state) ==
    [kind |-> "Handshake", version |-> version, address |-> address,
     port |-> port, next_state |-> next_state]

StatusRequest == [kind |-> "StatusRequest"]

PingRequest(ts) == [kind |-> "PingRequest", ts |-> ts]

StatusResponse(json) == [kind |-> "StatusResponse", json_response |-> json]

PingResponse(ts) == [kind |-> "PingResponse", ts |-> ts]

LoginStart(name, uuid) == [kind |-> "LoginStart", name |-> name, uuid |-> uuid]

Disconnect(reason) == [kind |-> "Disconnect", reason |-> reason]

\* HandshakePacket::decode_packet
handshake_decode_packet(number, buffer, offset) ==
    LET Done(version, address, port, ns) ==
            IF ns.st # "ok" THEN ns
            ELSE IF next_state_of(ns.val) = "invalid"
            THEN Fail("invalid", ns.offset)
            ELSE Ok(Handshake(version.val, address.val, port.val,
                              next_state_of(ns.val)), ns.offset)
        AfterPort(version, address, port) ==
            IF port.st # "ok" THEN port
            ELSE Bind(read_var_int(buffer, port.offset),
                      LAMBDA ns : Done(version, address, port, ns))
        AfterAddress(version, address) ==
            IF address.st # "ok" THEN address
            ELSE Bind(read_u16(buffer, address.offset),
                      LAMBDA port : AfterPort(version, address, port))
        AfterVersion(version) ==
            IF version.st # "ok" THEN version
            ELSE Bind(read_string(buffer, version.offset),
                      LAMBDA address : AfterAddress(version, address))
    IN  IF number # 0 THEN Fail("invalid", offset)
        ELSE Bind(read_var_int(buffer, offset), AfterVersion)

\* status::ServerBound::decode_packet
status_sb_decode_packet(number, buffer, offset) ==
    IF number = 0 THEN Ok(StatusRequest, offset)
    ELSE IF number = 1
    THEN LET ts == read_i64(buffer, offset)
         IN  IF ts.st # "ok" THEN ts ELSE Ok(PingRequest(ts.val), ts.offset)
    ELSE Fail("invalid", offset)

\* status::ClientBound::decode_packet
status_cb_decode_packet(number, buffer, offset) ==
    IF number = 0
    THEN LET js == read_string(buffer, offset)
         IN  IF js.st # "ok" THEN js ELSE Ok(StatusResponse(js.val), js.offset)
    ELSE IF number = 1
    THEN LET ts == read_i64(buffer, offset)
         IN  IF ts.st # "ok" THEN ts ELSE Ok(PingResponse(ts.val), ts.offset)
    ELSE Fail("invalid", offset)

\* login::ServerBound::decode_packet
login_sb_decode_packet(number, buffer, offset) ==
    LET Done(name, uuid) ==
            IF uuid.st # "ok" THEN uuid
            ELSE Ok(LoginStart(name.val, uuid.val), uuid.offset)
        AfterName(name) ==
            IF name.st # "ok" THEN name
            ELSE Bind(read_u128(buffer, name.offset),
                      LAMBDA uuid : Done(name, uuid))
    IN  IF number = 0 THEN Bind(read_string(buffer, offset), AfterName)
        ELSE IF number >= 1 /\ number < 4 THEN Fail("unsupported", offset)
        ELSE Fail("invalid", offset)

\* login::ClientBound::decode_packet
login_cb_decode_packet(number, buffer, offset) ==
    IF number = 0
    THEN LET reason == read_string(buffer, offset)
         IN  IF reason.st # "ok" THEN reason
             ELSE Ok(Disconnect(reason.val), reason.offset)
    ELSE IF number >= 1 /\ number < 5 THEN Fail("unsupported", offset)
    ELSE Fail("invalid", offset)

\* The type parameter T of PacketDecoder<T> / PacketEncoder<T>.
Protocols == {"Handshake", "StatusSB", "StatusCB", "LoginSB", "LoginCB"}

\* Protocol::decode_packet, dispatched on T.
decode_packet(T, number, buffer, offset) ==
    CASE T = "Handshake" -> handshake_decode_packet(number, buffer, offset)
      [] T = "StatusSB"  -> status_sb_decode_packet(number, buffer, offset)
      [] T = "StatusCB"  -> status_cb_decode_packet(number, buffer, offset)
      [] T = "LoginSB"   -> login_sb_decode_packet(number, buffer, offset)
      [] T = "LoginCB"   -> login_cb_decode_packet(number, buffer, offset)

\* Protocol::packet_number
packet_number(item) ==
    CASE item.kind \in {"Handshake", "StatusRequest", "StatusResponse",
                        "LoginStart", "Disconnect"} -> 0
      [] item.kind \in {"PingRequest", "PingResponse"} -> 1

\* Protocol::encoded_size
encoded_size(item) ==
    CASE item.kind = "Handshake" ->
            var_int_size(item.version) + string_size(item.address) + 2 + 1
      [] item.kind = "StatusRequest" -> 0
      [] item.kind \in {"PingRequest", "PingResponse"} -> 8
      [] item.kind = "StatusResponse" -> string_size(item.json_response)
      [] item.kind = "LoginStart" -> string_size(item.name) + 16
      [] item.kind = "Disconnect" -> string_size(item.reason)

\* Protocol::encode_packet
encode_packet(item) ==
    CASE item.kind = "Handshake" ->
            Then(write_var_int(item.version),
            Then(write_string(item.address),
            Then(Wrote(write_u16(item.port)),
                 write_var_int(NextStateNumber(item.next_state)))))
      [] item.kind = "StatusRequest" -> Wrote(<< >>)
      [] item.kind \in {"PingRequest", "PingResponse"} ->
            Wrote(write_i64(item.ts))
      [] item.kind = "StatusResponse" -> write_string(item.json_response)
      [] item.kind = "LoginStart" ->
            Then(write_string(item.name), Wrote(write_u128(item.uuid)))
      [] item.kind = "Disconnect" -> write_string(item.reason)

(***************************************************************************)
(* Packet framer (protocol/mod.rs)                                         *)
(***************************************************************************)
\* Option<usize>::None of PacketDecoder::needed.
NoHint == -1

\* A decoder that drops what it has buffered when it asks for more.
NeedMore_consuming(needed, src) ==
    [res |-> "none", needed |-> needed, rest |-> << >>]

\* return Ok(None): src is not touched.
NeedMore(needed, src) ==
    [res |-> "none", needed |-> needed, rest |-> src]

DecodeErr(kind, needed, src) ==
    [res |-> IF kind = "panic" THEN "panic" ELSE "err", kind |-> kind,
     needed |-> needed, rest |-> src]

\* How many bytes a successful decode splits off the buffer
\* (src.split_to(state.offset)): up to where the payload decoder stopped.
split_at(lenEnd, offset) == offset

\* PacketDecoder<T>::decode(&mut self, src)
decode(T, needed, src) ==
    LET Split(packet, frameEnd) ==
            IF packet.st # "ok" THEN DecodeErr(packet.st, needed, src)
            ELSE [res |-> "some", needed |-> NoHint, data |-> packet.val,
                  bytes |-> Take(src, split_at(frameEnd, packet.offset)),
                  rest |-> Drop(src, split_at(frameEnd, packet.offset))]
        Payload(view, kind) ==
            IF kind.st = "eof" THEN NeedMore(needed, src)
            ELSE IF kind.st # "ok" THEN DecodeErr(kind.st, needed, src)
            ELSE Bind(decode_packet(T, kind.val, view, kind.offset),
                      LAMBDA packet : Split(packet, Len(view)))
        Frame(raw_len) ==
            IF raw_len.st = "eof" THEN NeedMore(needed, src)
            ELSE IF raw_len.st # "ok" THEN DecodeErr(raw_len.st, needed, src)
            ELSE IF raw_len.val < 0 THEN DecodeErr("invalid", needed, src)
            ELSE IF raw_len.val + raw_len.offset > Len(src)
            THEN NeedMore(raw_len.val, src)
            ELSE Bind(Take(src, raw_len.offset + raw_len.val),
                      LAMBDA view :
                          Bind(read_var_int(view, raw_len.offset),
                               LAMBDA kind : Payload(view, kind)))
    IN  IF needed # NoHint /\ Len(src) < needed THEN NeedMore(needed, src)
        ELSE Bind(read_var_int(src, 0), Frame)

\* PacketEncoder<T>::encode(item, dst): the bytes appended to dst.
encode(item) ==
    LET id         == packet_number(item)
        size       == encoded_size(item)
        total_size == size + var_int_size(id)
        prefix     == write_var_int(total_size)
        body       == Then(write_var_int(id), encode_packet(item))
    IN  IF body.st # "ok" THEN [st |-> body.st, bytes |-> prefix.bytes \o body.bytes]
        ELSE IF Len(body.bytes) # total_size
        THEN [st |-> "panic", bytes |-> prefix.bytes \o body.bytes]
        ELSE Wrote(prefix.bytes \o body.bytes)

(***************************************************************************)
(* Literals of main.rs                                                     *)
(***************************************************************************)
\* const STATUS_RESPONSE, as UTF-8 bytes.
STATUS_RESPONSE == <<
    123, 10, 32, 32, 32, 32, 34, 118, 101, 114, 115, 105, 111, 110, 34, 58, 32, 123, 10, 32,
    32, 32, 32, 32, 32, 32, 32, 34, 110, 97, 109, 101, 34, 58, 32, 34, 49, 46, 50, 49,
    46, 55, 34, 44, 10, 32, 32, 32, 32, 32, 32, 32, 32, 34, 112, 114, 111, 116, 111, 99,
    111, 108, 34, 58, 32, 55, 55, 50, 10, 32, 32, 32, 32, 125, 44, 10, 32, 32, 32, 32,
    34, 112, 108, 97, 121, 101, 114, 115, 34, 58, 32, 123, 10, 32, 32, 32, 32, 32, 32, 32,
    32, 34, 109, 97, 120, 34, 58, 32, 48, 44, 10, 32, 32, 32, 32, 32, 32, 32, 32, 34,
    111, 110, 108, 105, 110, 101, 34, 58, 32, 48, 10, 32, 32, 32, 32, 125, 44, 10, 32, 32,
    32, 32, 34, 100, 101, 115, 99, 114, 105, 112, 116, 105, 111, 110, 34, 58, 32, 34, 78, 111,
    116, 32, 97, 32, 77, 105, 110, 101, 99, 114, 97, 102, 116, 32, 115, 101, 114, 118, 101, 114,
    34, 44, 10, 32, 32, 32, 32, 34, 101, 110, 102, 111, 114, 99, 101, 83, 101, 99, 117, 114,
    101, 80, 114, 111, 102, 105, 108, 101, 34, 58, 32, 102, 97, 108, 115, 101, 10, 125 >>

\* The Disconnect reason of login_handler:
\* "\"Server is starting, please try again later\"", as UTF-8 bytes.
DISCONNECT_REASON == <<
    34, 83, 101, 114, 118, 101, 114, 32, 105, 115, 32, 115, 116, 97, 114, 116, 105, 110, 103, 44,
    32, 112, 108, 101, 97, 115, 101, 32, 116, 114, 121, 32, 97, 103, 97, 105, 110, 32, 108, 97,
    116, 101, 114, 34 >>

(***************************************************************************)
(* Client inputs.  A scenario is the byte stream one client sends:         *)
(* a first frame followed by the frames of its requests.  hsValid tells    *)
(* whether the first frame is a valid handshake, reqs are the requests     *)
(* the client encoded after it (empty when the tail is raw bytes).         *)
(***************************************************************************)
TS1 == << 291, 17767, 35243, 52719 >>   \* 0x0123456789ABCDEF

TS2 == << 65535, 0, 0, 1 >>

UUID1 == << 0, 0, 0, 0, 0, 0, 0, 1 >>

HsFrame(ns) == encode(Handshake(772, << 109, 99 >>, 25565, ns)).bytes

Frames(reqs) == Flatten([i \in 1..Len(reqs) |-> encode(reqs[i]).bytes])

WellFormed(ns, reqs) ==
    [bytes |-> HsFrame(ns) \o Frames(reqs), hsValid |-> TRUE,
     wf |-> TRUE, next |-> ns, reqs |-> reqs]

RawTail(ns, tail) ==
    [bytes |-> HsFrame(ns) \o tail, hsValid |-> TRUE,
     wf |-> FALSE, next |-> ns, reqs |-> << >>]

BadFirst(bs) ==
    [bytes |-> bs, hsValid |-> FALSE, wf |-> FALSE, next |-> "None",
     reqs |-> << >>]

StatusScenarios == <<
    WellFormed("Status", << StatusRequest, PingRequest(TS1) >>),
    WellFormed("Status", << PingRequest(TS1), StatusRequest >>),
    WellFormed("Status", << StatusRequest, StatusRequest, PingRequest(TS1) >>),
    WellFormed("Status", << StatusRequest, PingRequest(TS2), PingRequest(TS1) >>),
    \* PingRequest frame with 7 timestamp bytes, then a StatusRequest
    RawTail("Status", << 8, 1, 1, 2, 3, 4, 5, 6, 7, 1, 0 >>),
    \* StatusRequest frame padded by two bytes that read as a next frame
    RawTail("Status", << 3, 0, 1, 0, 1, 0 >>),
    \* unknown packet id
    RawTail("Status", << 1, 7 >>) >>

LoginScenarios == <<
    WellFormed("Login", << LoginStart(<< 83 >>, UUID1) >>),
    WellFormed("Login", << LoginStart(<< 83 >>, UUID1),
                           LoginStart(<< 65 >>, UUID1) >>),
    WellFormed("Transfer", << LoginStart(<< 83 >>, UUID1) >>),
    \* recognised but unsupported id, invalid id
    RawTail("Login", << 1, 2 >>),
    RawTail("Transfer", << 1, 9 >>) >>

BadHandshakes == <<
    \* packet id 1
    BadFirst(<< 9, 1, 132, 6, 2, 109, 99, 99, 221, 1 >>),
    \* next_state 42
    BadFirst(<< 9, 0, 132, 6, 2, 109, 99, 99, 221, 42 >>),
    \* next_state 0
    BadFirst(<< 9, 0, 132, 6, 2, 109, 99, 99, 221, 0 >>),
    \* frame ends after one port byte
    BadFirst(<< 7, 0, 132, 6, 2, 109, 99, 99 >>),
    \* frame ends before the port
    BadFirst(<< 6, 0, 132, 6, 2, 109, 99 >>),
    \* declared length never completed
    BadFirst(<< 9, 0, 132, 6 >>),
    \* five continuation bytes in the length prefix
    BadFirst(<< 255, 255, 255, 255, 255, 0 >>),
    \* negative length
    BadFirst(<< 255, 255, 255, 255, 15, 0 >>),
    \* empty frame
    BadFirst(<< 0 >>),
    \* address is not UTF-8
    BadFirst(<< 9, 0, 132, 6, 2, 195, 40, 99, 221, 1 >>),
    \* nothing at all
    BadFirst(<< >>) >>

Scenarios == StatusScenarios \o LoginScenarios \o BadHandshakes

\* Handshake-only clients, one per next_state.
DialScenarios == <<
    WellFormed("Status", << >>), WellFormed("Login", << >>),
    WellFormed("Transfer", << >>) >>

AllScenarios == Scenarios \o DialScenarios

(***************************************************************************)
(* State                                                                   *)
(***************************************************************************)
\* Connection slots of the accept loop.
MaxConns == 3

\* Child processes the supervisor launches in one run.
MaxChildren == 2

Conns == 1..MaxConns

VARIABLES
    conn,       \* per connection: the state of its connection_handler task
    scn,        \* per connection: index in AllScenarios of the client's input
    lock,       \* ExternalProcess::state mutex: 0 free, else the holder
    state,      \* ExternalProcess::state: 0 = None, h = Some(handle of child h)
    children,   \* launched children: the process and its wait task
    probe       \* a codec under examination on its own: input and results

vars == << conn, scn, lock, state, children, probe >>

\* No codec is examined on its own while the proxy runs.
NoProbe == [op |-> "none"]

Stream(c) == AllScenarios[scn[c]].bytes

NoPacket == [data |-> [kind |-> "None"], bytes |-> << >>]

\* A connection not yet accepted (idle) or never arriving (unused).
NewConn(used) ==
    [pc |-> IF used THEN "idle" ELSE "unused",
     pos |-> 0,              \* bytes of the stream taken off the socket
     buf |-> << >>,          \* FramedRead's buffer
     readable |-> FALSE,     \* FramedRead's is_readable
     eof |-> FALSE,          \* FramedRead's eof
     needed |-> NoHint,      \* PacketDecoder::needed
     hs |-> NoPacket,        \* handshake_packet
     status_sent |-> FALSE, ping_sent |-> FALSE, disconnect_sent |-> FALSE,
     out |-> << >>,          \* packets sent to the client
     backend |-> << >>,      \* bytes written to the backend socket
     phase |-> "none",       \* "forward", "status" or "login" once entered
     dials |-> 0,            \* TcpStream::connect calls
     spawn |-> "none",       \* outcome of spawn_once: true/false/err/panic
     began |-> 0,            \* handle in state when the lock was taken
     seen |-> "none",        \* what spawn_once found: idle/running/exited
     carry |-> 0,            \* bytes buffered behind the handshake frame
     writer_closed |-> FALSE, \* writer.close() was performed
     result |-> "none"]      \* how the task ended: ok/io/timeout/panic

TypeOK ==
    /\ scn \in [Conns -> 1..Len(AllScenarios)]
    /\ lock \in 0..MaxConns
    /\ state \in 0..Len(children)
    /\ \A c \in Conns : conn[c].pos \in 0..Len(Stream(c))

InitWith(n, menu) ==
    /\ conn = [c \in Conns |-> NewConn(c <= n)]
    /\ scn \in [Conns -> menu]
    /\ \A c \in Conns : c > n => scn[c] = CHOOSE m \in menu : TRUE
    /\ lock = 0
    /\ state = 0
    /\ children = << >>
    /\ probe = NoProbe

(***************************************************************************)
(* Supervisor (external_process.rs)                                        *)
(***************************************************************************)
\* A mutex that never makes a caller wait.
lock_free_unguarded == TRUE

\* Mutex::lock().await completes only while nobody holds the mutex.
lock_free == lock = 0

\* A test that takes every tracked child for finished.
is_finished_always(h) == TRUE

\* JoinHandle::is_finished of the wait task of child h.
is_finished(h) == children[h].task # "running"

\* A branch that serves Transfer like Status.
local_handler_transfer_as_status(next_state) ==
    IF next_state = "Login" THEN "login" ELSE "status"

\* The arm of  match next_state  that connection_handler runs.
local_handler(next_state) ==
    IF next_state = "Status" THEN "status" ELSE "login"

End(k, result) == [k EXCEPT !.pc = "closed", !.result = result]

\* Return of spawn_once into connection_handler:  spawn_once().await?
\* then the branch on next_state.
spawn_return(k, ret) ==
    IF ret \in {"true", "false"}
    THEN [k EXCEPT !.spawn = ret,
                   !.pc = local_handler(k.hs.data.next_state),
                   !.phase = local_handler(k.hs.data.next_state)]
    ELSE End([k EXCEPT !.spawn = ret], IF ret = "panic" THEN "panic" ELSE "io")

\* let mut lock = self.state.lock().await;
SpawnLock(c) ==
    /\ conn[c].pc = "spawn_lock"
    /\ lock_free
    /\ lock' = c
    /\ conn' = [conn EXCEPT ![c] = [@ EXCEPT !.pc = "spawn_check",
                                              !.began = state]]
    /\ UNCHANGED << scn, state, children, probe >>

\* A spawn_once that awaits the wait task whether it has finished or not:
\* the caller keeps the lock until the child is gone.
SpawnCheck_awaiting(c) ==
    /\ conn[c].pc = "spawn_check"
    /\ state # 0 => is_finished(state)
    /\ IF state = 0
       THEN /\ conn' = [conn EXCEPT ![c] = [@ EXCEPT !.pc = "spawn_launch",
                                                     !.seen = "idle"]]
            /\ UNCHANGED << lock, children >>
       ELSE IF children[state].task = "joined"
       THEN /\ conn' = [conn EXCEPT ![c] =
                          spawn_return([@ EXCEPT !.seen = "exited"], "panic")]
            /\ lock' = 0
            /\ UNCHANGED children
       ELSE /\ children' = [children EXCEPT ![state].task = "joined"]
            /\ conn' = [conn EXCEPT ![c] = [@ EXCEPT !.pc = "spawn_launch",
                                                     !.seen = "exited"]]
            /\ UNCHANGED lock
    /\ UNCHANGED << scn, state, probe >>

\* if let Some(task) = lock.as_mut() { ... }: running -> Ok(false);
\* finished -> task.await (a JoinHandle polled again after it has
\* completed panics; the guard is dropped by the unwinding).
SpawnCheck(c) ==
    /\ conn[c].pc = "spawn_check"
    /\ IF state = 0
       THEN /\ conn' = [conn EXCEPT ![c] = [@ EXCEPT !.pc = "spawn_launch",
                                                     !.seen = "idle"]]
            /\ UNCHANGED << lock, children >>
       ELSE IF ~is_finished(state)
       THEN /\ conn' = [conn EXCEPT ![c] =
                          spawn_return([@ EXCEPT !.seen = "running"], "false")]
            /\ lock' = 0
            /\ UNCHANGED children
       ELSE IF children[state].task = "joined"
       THEN /\ conn' = [conn EXCEPT ![c] =
                          spawn_return([@ EXCEPT !.seen = "exited"], "panic")]
            /\ lock' = 0
            /\ UNCHANGED children
       ELSE /\ children' = [children EXCEPT ![state].task = "joined"]
            /\ conn' = [conn EXCEPT ![c] = [@ EXCEPT !.pc = "spawn_launch",
                                                     !.seen = "exited"]]
            /\ UNCHANGED lock
    /\ UNCHANGED << scn, state, probe >>

\* Command::new(..).spawn()?  then  *lock = Some(task::spawn(wait))  and
\* Ok(true); the launch itself may fail.
SpawnLaunch(c) ==
    /\ conn[c].pc = "spawn_launch"
    /\ \E launched \in BOOLEAN :
          IF launched /\ Len(children) < MaxChildren
          THEN /\ children' = Append(children,
                                     [proc |-> "running", task |-> "running"])
               /\ state' = Len(children) + 1
               /\ conn' = [conn EXCEPT ![c] = spawn_return(@, "true")]
          ELSE /\ conn' = [conn EXCEPT ![c] = spawn_return(@, "err")]
               /\ UNCHANGED << state, children >>
    /\ lock' = 0
    /\ UNCHANGED << scn, probe >>

\* The child process terminates.
ChildExit(h) ==
    /\ children[h].proc = "running"
    /\ children' = [children EXCEPT ![h].proc = "exited"]
    /\ UNCHANGED << conn, scn, lock, state, probe >>

\* process.wait().await returns and the wait task completes.
TaskFinish(h) ==
    /\ children[h].proc = "exited"
    /\ children[h].task = "running"
    /\ children' = [children EXCEPT ![h].task = "finished"]
    /\ UNCHANGED << conn, scn, lock, state, probe >>

(***************************************************************************)
(* Connection handler (main.rs)                                            *)
(***************************************************************************)
Reading == {"handshake", "status", "login"}

DecoderOf(pc) ==
    CASE pc = "handshake" -> "Handshake"
      [] pc = "status"    -> "StatusSB"
      [] pc = "login"     -> "LoginSB"

\* listener.accept() and task::spawn(connection_handler(..)), in arrival
\* order.
Accept(c) ==
    /\ conn[c].pc = "idle"
    /\ \A d \in 1..(c - 1) : conn[d].pc # "idle"
    /\ conn' = [conn EXCEPT ![c] = [@ EXCEPT !.pc = "handshake"]]
    /\ UNCHANGED << scn, lock, state, children, probe >>

\* FramedRead::poll_next, buffer not readable: the socket read returns the
\* next k bytes the client sent.
Recv(c) ==
    /\ conn[c].pc \in Reading
    /\ ~conn[c].readable /\ ~conn[c].eof
    /\ \E k \in 1..(Len(Stream(c)) - conn[c].pos) :
          conn' = [conn EXCEPT ![c] =
                     [@ EXCEPT !.buf = @ \o SubSeq(Stream(c), conn[c].pos + 1,
                                                   conn[c].pos + k),
                               !.pos = @ + k,
                               !.readable = TRUE]]
    /\ UNCHANGED << scn, lock, state, children, probe >>

\* The socket read returns 0: the client has closed its sending side.
Eof(c) ==
    /\ conn[c].pc \in Reading
    /\ ~conn[c].readable /\ ~conn[c].eof
    /\ conn' = [conn EXCEPT ![c] = [@ EXCEPT !.eof = TRUE, !.readable = TRUE]]
    /\ UNCHANGED << scn, lock, state, children, probe >>

\* A timer that guards the handshake only.
Timeout_handshake_only(c) ==
    /\ conn[c].pc = "handshake"
    /\ ~conn[c].readable
    /\ conn' = [conn EXCEPT ![c] = End(@, "timeout")]
    /\ UNCHANGED << scn, lock, state, children, probe >>

\* timeout(Duration::from_secs(5), reader.next()).await? while the read is
\* pending.
Timeout(c) ==
    /\ conn[c].pc \in Reading
    /\ ~conn[c].readable
    /\ conn' = [conn EXCEPT ![c] = End(@, "timeout")]
    /\ UNCHANGED << scn, lock, state, children, probe >>

Send(k, resp, wr) ==
    IF wr = "ok" THEN [k EXCEPT !.out = Append(@, resp)] ELSE End(k, "io")

\* writer.close().await?; Ok(())
CloseWriter(k, wr) ==
    [k EXCEPT !.writer_closed = TRUE, !.pc = "closed",
              !.result = IF wr = "ok" THEN "ok" ELSE "io"]

\* connection_handler on the first item of the stream:
\* .ok_or(UnexpectedEof).and_then(|r| r)?
handshake_step(k, item) ==
    IF item.t = "packet"
    THEN [k EXCEPT !.hs = [data |-> item.data, bytes |-> item.bytes],
                   !.carry = Len(k.buf),
                   !.pc = "dial"]
    ELSE End(k, "io")

\* A status loop that does not consult status_sent.
status_step_every_request(k, item, wr) ==
    IF item.t = "end" \/ k.ping_sent THEN CloseWriter(k, wr)
    ELSE IF item.t = "err" THEN End(k, "io")
    ELSE IF item.data.kind = "StatusRequest"
    THEN Send([k EXCEPT !.status_sent = TRUE],
              StatusResponse(STATUS_RESPONSE), wr)
    ELSE Send([k EXCEPT !.ping_sent = TRUE], PingResponse(item.data.ts), wr)

\* One turn of  while let Some(req) = timeout(.., reader.next()).await?
\* && !ping_sent { .. }  of status_handler, for the item next() yielded;
\* wr is the outcome of the write this turn performs.
status_step(k, item, wr) ==
    IF item.t = "end" \/ k.ping_sent THEN CloseWriter(k, wr)
    ELSE IF item.t = "err" THEN End(k, "io")
    ELSE IF item.data.kind = "StatusRequest"
    THEN IF k.status_sent THEN CloseWriter(k, wr)
         ELSE Send([k EXCEPT !.status_sent = TRUE],
                   StatusResponse(STATUS_RESPONSE), wr)
    ELSE Send([k EXCEPT !.ping_sent = TRUE], PingResponse(item.data.ts), wr)

\* One turn of the loop of login_handler.
login_step(k, item, wr) ==
    IF item.t = "end" \/ k.disconnect_sent THEN CloseWriter(k, wr)
    ELSE IF item.t = "err" THEN End(k, "io")
    ELSE Send([k EXCEPT !.disconnect_sent = TRUE],
              Disconnect(DISCONNECT_REASON), wr)

handler_step(k, item, wr) ==
    CASE k.pc = "handshake" -> handshake_step(k, item)
      [] k.pc = "status"    -> status_step(k, item, wr)
      [] k.pc = "login"     -> login_step(k, item, wr)

\* FramedRead::poll_next on a readable buffer, for the result r of decode
\* (of decode_eof once the socket reported end of stream): the item goes
\* to the handler, a panic ends the task.
poll_next(k, r, wr) ==
    CASE r.res = "some" ->
           handler_step([k EXCEPT !.needed = r.needed, !.buf = r.rest],
                        [t |-> "packet", data |-> r.data, bytes |-> r.bytes],
                        wr)
      [] r.res = "err" ->
           handler_step([k EXCEPT !.needed = r.needed], [t |-> "err"], wr)
      [] r.res = "panic" -> End(k, "panic")
      [] r.res = "none" /\ ~k.eof ->
           [k EXCEPT !.needed = r.needed, !.readable = FALSE]
      [] r.res = "none" /\ k.eof /\ k.buf = << >> ->
           handler_step([k EXCEPT !.needed = r.needed, !.readable = FALSE],
                        [t |-> "end"], wr)
      [] r.res = "none" /\ k.eof /\ k.buf # << >> ->
           handler_step([k EXCEPT !.needed = r.needed], [t |-> "err"], wr)

\* reader.next() makes progress without waiting for the socket.
Decode(c) ==
    /\ conn[c].pc \in Reading
    /\ conn[c].readable
    /\ \E wr \in {"ok", "err"} :
       \E r \in {decode(DecoderOf(conn[c].pc), conn[c].needed, conn[c].buf)} :
          conn' = [conn EXCEPT ![c] = poll_next(@, r, wr)]
    /\ UNCHANGED << scn, lock, state, children, probe >>

\* TcpStream::connect(forward_addr): on success write the handshake
\* packet's buffer to the backend (the write may fail), else spawn_once.
Dial(c) ==
    /\ conn[c].pc = "dial"
    /\ \E r \in {"up", "write_err", "down"} :
          conn' = [conn EXCEPT ![c] =
             CASE r = "up" ->
                    [@ EXCEPT !.dials = @ + 1, !.pc = "forward",
                              !.phase = "forward",
                              !.backend = conn[c].hs.bytes]
               [] r = "write_err" ->
                    End([@ EXCEPT !.dials = @ + 1], "io")
               [] r = "down" ->
                    [@ EXCEPT !.dials = @ + 1, !.pc = "spawn_lock"]]
    /\ UNCHANGED << scn, lock, state, children, probe >>

\* io::copy_bidirectional, client to backend: the next k bytes are read
\* from the client socket and written to the backend.
Forward(c) ==
    /\ conn[c].pc = "forward"
    /\ \E k \in 1..(Len(Stream(c)) - conn[c].pos) :
          conn' = [conn EXCEPT ![c] =
                     [@ EXCEPT !.backend = @ \o SubSeq(Stream(c),
                                                       conn[c].pos + 1,
                                                       conn[c].pos + k),
                               !.pos = @ + k]]
    /\ UNCHANGED << scn, lock, state, children, probe >>

\* copy_bidirectional returns: both directions closed, or an I/O error.
ForwardEnd(c) ==
    /\ conn[c].pc = "forward"
    /\ \E r \in {"ok", "io"} : conn' = [conn EXCEPT ![c] = End(@, r)]
    /\ UNCHANGED << scn, lock, state, children, probe >>

Next ==
    \/ \E c \in Conns : Accept(c)
    \/ \E c \in Conns : Recv(c)
    \/ \E c \in Conns : Eof(c)
    \/ \E c \in Conns : Timeout(c)
    \/ \E c \in Conns : Decode(c)
    \/ \E c \in Conns : Dial(c)
    \/ \E c \in Conns : Forward(c)
    \/ \E c \in Conns : ForwardEnd(c)
    \/ \E c \in Conns : SpawnLock(c)
    \/ \E c \in Conns : SpawnCheck(c)
    \/ \E c \in Conns : SpawnLaunch(c)
    \/ \E h \in 1..Len(children) : ChildExit(h)
    \/ \E h \in 1..Len(children) : TaskFinish(h)

\* One client, any input.
Init == InitWith(1, 1..Len(Scenarios))

Spec == Init /\ [][Next]_vars

(***************************************************************************)
(* The supervisor under concurrent callers: every connection has sent its  *)
(* handshake (one of DialScenarios) in one piece and the handler has       *)
(* decoded it; from there the tasks dial and call spawn_once.              *)
(***************************************************************************)
AfterHandshake(m) ==
    poll_next([NewConn(TRUE) EXCEPT !.pc = "handshake",
                                    !.buf = AllScenarios[m].bytes,
                                    !.pos = Len(AllScenarios[m].bytes),
                                    !.readable = TRUE],
              decode("Handshake", NoHint, AllScenarios[m].bytes), "ok")

InitSup ==
    /\ scn \in [Conns -> {Len(Scenarios) + 1, Len(Scenarios) + 2}]
    /\ conn = [c \in Conns |-> AfterHandshake(scn[c])]
    /\ lock = 0
    /\ state = 0
    /\ children = << >>
    /\ probe = NoProbe

NextSup ==
    \/ \E c \in Conns : Dial(c)
    \/ \E c \in Conns : SpawnLock(c)
    \/ \E c \in Conns : SpawnCheck(c)
    \/ \E c \in Conns : SpawnLaunch(c)
    \/ \E h \in 1..Len(children) : ChildExit(h)
    \/ \E h \in 1..Len(children) : TaskFinish(h)

SpecSup == InitSup /\ [][NextSup]_vars

(***************************************************************************)
(* Properties of the supervisor                                            *)
(***************************************************************************)
Alive == {h \in 1..Len(children) : children[h].proc = "running"}

InSpawnOnce(c) == conn[c].pc \in {"spawn_lock", "spawn_check", "spawn_launch"}

Returned(ret) == {c \in Conns : conn[c].spawn = ret}

Callers == {c \in Conns : conn[c].spawn # "none"}

\* C1: single-flight.  At most one child of the supervisor is alive in
\* every state.  While no child has exited at most one child was ever
\* launched; and once the concurrent spawn_once calls on the idle
\* supervisor have all returned (no launch of the command having failed),
\* exactly one of them returned true and launched the only child, and all
\* the others returned false.
C1_SingleFlight ==
    /\ Cardinality(Alive) <= 1
    /\ (\A h \in 1..Len(children) : children[h].proc = "running")
         => /\ Len(children) <= 1
            /\ Cardinality(Returned("true")) <= 1
            /\ (/\ Callers # {}
                /\ \A c \in Conns : ~InSpawnOnce(c)
                /\ Returned("err") = {})
                 => /\ Cardinality(Returned("true")) = 1
                    /\ Len(children) = 1
                    /\ Returned("false") = Callers \ Returned("true")

\* C1 witness: every connection called spawn_once, one call launched the
\* child, which still runs, and all the others returned false.
C1_Witness ==
    /\ Callers = Conns
    /\ Cardinality(Returned("true")) = 1
    /\ Cardinality(Returned("false")) = MaxConns - 1
    /\ Cardinality(Alive) = 1

\* C3: restart after exit.  A spawn_once call that finds the tracked child
\* exited returns true (a new child was launched and stored), unless the
\* launch of the command itself failed.
C3_RestartAfterExit ==
    \A c \in Conns :
        (conn[c].seen = "exited" /\ conn[c].spawn # "none")
            => conn[c].spawn \in {"true", "err"}

\* C4: linearizable spawn_once.  A call that takes the lock after a call
\* that returned true stored its child returns false, launching nothing
\* and leaving the stored handle alone, whenever that child's process has
\* not exited when the call returns.
C4_Linearizable ==
    [][\A c \in Conns :
          (/\ conn[c].spawn = "none"
           /\ conn'[c].spawn # "none"
           /\ conn[c].began # 0
           /\ children[conn[c].began].proc = "running")
            => /\ conn'[c].spawn = "false"
               /\ children' = children
               /\ state' = state]_vars

\* C4 witness: a call that began while child `began` was stored has
\* returned false and that child is still running.
C4_Witness ==
    \E c \in Conns :
        /\ conn[c].spawn = "false"
        /\ conn[c].began # 0
        /\ children[conn[c].began].proc = "running"
        /\ lock = 0

(***************************************************************************)
(* Properties of the connection handler                                    *)
(***************************************************************************)
Scenario(c) == AllScenarios[scn[c]]

Count(out, kind) == Cardinality({i \in 1..Len(out) : out[i].kind = kind})

IsPrefix(a, b) == Len(a) <= Len(b) /\ a = Take(b, Len(a))

\* The client sent its whole stream and the handler returned Ok(()).
ServedAll(c) ==
    /\ conn[c].pc = "closed"
    /\ conn[c].result = "ok"
    /\ conn[c].pos = Len(Stream(c))

\* C2: forwarding path.  Once forwarding, the backend has received exactly
\* the bytes the proxy has taken from the client so far: the handshake
\* frame and every later byte, in order.
C2_ForwardVerbatim ==
    \A c \in Conns :
        conn[c].phase = "forward"
            => conn[c].backend = Take(Stream(c), conn[c].pos)

\* C5: a spawn error is not fatal.  A connection whose spawn_once call
\* reported a launch error has entered the status or the login loop.
C5_SpawnErrorNonFatal ==
    \A c \in Conns :
        conn[c].spawn = "err"
            => conn[c].phase = local_handler(conn[c].hs.data.next_state)

\* C6: malformed or missing handshake.  As long as no valid handshake
\* frame was decoded, the backend is not dialled, spawn_once is not called
\* and nothing is written to the client or the backend; a client whose
\* first frame is not a valid handshake never gets past that state, and
\* its connection is closed as soon as the decoder rejects the frame.
C6_BadHandshakeClosesSilently ==
    \A c \in Conns :
        /\ conn[c].hs = NoPacket
             => /\ conn[c].pc \in {"unused", "idle", "handshake", "closed"}
                /\ conn[c].dials = 0
                /\ conn[c].spawn = "none"
                /\ conn[c].out = << >>
                /\ conn[c].backend = << >>
                /\ ~conn[c].writer_closed
        /\ ~Scenario(c).hsValid => conn[c].hs = NoPacket

\* C6 witness: a client sent a complete first frame that is no valid
\* handshake and its connection was closed with an error.
C6_Witness ==
    \E c \in Conns :
        /\ ~Scenario(c).hsValid
        /\ conn[c].pos = Len(Stream(c))
        /\ conn[c].pos > 1
        /\ conn[c].pc = "closed"
        /\ conn[c].result = "io"
        /\ ~conn[c].eof

\* What the status loop owes a client for its requests, in order: a
\* StatusResponse for the first StatusRequest, nothing from a second
\* StatusRequest on, a PingResponse with the same timestamp for a
\* PingRequest and nothing after it.
RECURSIVE ExpectedStatus(_, _)
ExpectedStatus(reqs, answered) ==
    IF reqs = << >> THEN << >>
    ELSE IF Head(reqs).kind = "PingRequest"
    THEN << PingResponse(Head(reqs).ts) >>
    ELSE IF answered THEN << >>
    ELSE << StatusResponse(STATUS_RESPONSE) >>
         \o ExpectedStatus(Tail(reqs), TRUE)

\* C7: status path with the backend down.  Whatever the client sends and
\* however its bytes are split over reads, the client gets at most one
\* StatusResponse (the fixed JSON) and at most one PingResponse, nothing
\* else and nothing after the PingResponse.  For a client sending
\* well-formed requests the responses are, in request order, those owed
\* for the requests (a second StatusRequest is not answered and nothing
\* is answered after it), and all of them once the client's stream has
\* been served.
C7_StatusPath ==
    \A c \in Conns :
        conn[c].phase = "status"
            => /\ Count(conn[c].out, "StatusResponse") <= 1
               /\ Count(conn[c].out, "PingResponse") <= 1
               /\ \A i \in 1..Len(conn[c].out) :
                     /\ conn[c].out[i].kind \in {"StatusResponse",
                                                 "PingResponse"}
                     /\ conn[c].out[i].kind = "StatusResponse"
                          => conn[c].out[i].json_response = STATUS_RESPONSE
                     /\ conn[c].out[i].kind = "PingResponse"
                          => i = Len(conn[c].out)
               /\ Scenario(c).wf
                    => IsPrefix(conn[c].out,
                                ExpectedStatus(Scenario(c).reqs, FALSE))
               /\ (Scenario(c).wf /\ ServedAll(c))
                    => conn[c].out = ExpectedStatus(Scenario(c).reqs, FALSE)

\* C7 witness: a StatusRequest arrived in the same read as the handshake,
\* and the client has received the StatusResponse and then the
\* PingResponse with the timestamp of its PingRequest.
C7_Witness ==
    \E c \in Conns :
        /\ conn[c].phase = "status"
        /\ conn[c].carry > 0
        /\ Scenario(c).wf
        /\ Len(Scenario(c).reqs) = 2
        /\ Scenario(c).reqs[2].kind = "PingRequest"
        /\ conn[c].out = << StatusResponse(STATUS_RESPONSE),
                            PingResponse(Scenario(c).reqs[2].ts) >>
        /\ ServedAll(c)

\* C8: the terminal response ends the local loop.  Once a PingResponse or
\* a Disconnect has been sent the handler is no longer reading packets
\* from the client.
C8_TerminalResponseEndsLoop ==
    \A c \in Conns :
        (\E i \in 1..Len(conn[c].out) :
             conn[c].out[i].kind \in {"PingResponse", "Disconnect"})
            => conn[c].pc \notin Reading

\* C9: the writer is closed on all exits of the local loop.  A handler
\* that entered the status or the login loop and returned (end of stream,
\* second StatusRequest, read timeout, decode error or write error) has
\* performed writer.close().
C9_WriterClosedOnAllExits ==
    \A c \in Conns :
        (/\ conn[c].phase \in {"status", "login"}
         /\ conn[c].pc = "closed"
         /\ conn[c].result \in {"ok", "io", "timeout"})
            => conn[c].writer_closed

\* C10: login path with the backend down.  On a connection whose
\* handshake asked for Login or for Transfer the only local loop is the
\* login loop, every packet written to the client is the Disconnect with
\* the fixed reason (so no Status packet), at most one is written, the
\* first LoginStart is answered with it unless the write fails, and a
\* client that sent a LoginStart and was served to the end has received
\* exactly that one Disconnect.
C10_LoginPath ==
    \A c \in Conns :
        (/\ conn[c].hs # NoPacket
         /\ conn[c].hs.data.next_state \in {"Login", "Transfer"})
            => /\ conn[c].phase \in {"none", "forward", "login"}
               /\ Len(conn[c].out) <= 1
               /\ \A i \in 1..Len(conn[c].out) :
                     conn[c].out[i] = Disconnect(DISCONNECT_REASON)
               /\ conn[c].disconnect_sent
                    => (Len(conn[c].out) = 1 \/ conn[c].result = "io")
               /\ (/\ conn[c].phase = "login"
                   /\ Scenario(c).wf
                   /\ Scenario(c).reqs # << >>
                   /\ ServedAll(c))
                    => conn[c].out = << Disconnect(DISCONNECT_REASON) >>

\* C10 witness: a Transfer client sent its LoginStart, received the one
\* Disconnect and the handler returned.
C10_Witness ==
    \E c \in Conns :
        /\ conn[c].hs # NoPacket
        /\ conn[c].hs.data.next_state = "Transfer"
        /\ conn[c].phase = "login"
        /\ conn[c].out = << Disconnect(DISCONNECT_REASON) >>
        /\ ServedAll(c)

(***************************************************************************)
(* The framer on its own: a PacketDecoder<T> is handed a byte stream in    *)
(* arbitrary pieces and decode is called on the accumulated buffer after   *)
(* every arrival until it asks for more, the way FramedRead drives it.     *)
(***************************************************************************)
\* Length up to which raw buffers are enumerated exhaustively.
MaxRaw == 4

\* Bytes the raw buffers are made of: small lengths and packet ids, a
\* continuation byte with no payload bits, and 0xff.
RawBytes == {0, 1, 2, 128, 255}

RawBuffers == UNION {[1..n -> RawBytes] : n \in 0..MaxRaw}

FramerInput(T, stream, wf, packets) ==
    [T |-> T, stream |-> stream, wf |-> wf, packets |-> packets]

\* Streams of frames produced by the encoder, for every packet type.
FramedStreams ==
    {FramerInput(x[1], Frames(x[2]), TRUE, x[2]) : x \in {
        << "Handshake", << Handshake(772, << 109, 99 >>, 25565, "Login"),
                           Handshake(0, << >>, 0, "Status") >> >>,
        << "StatusSB",  << StatusRequest, PingRequest(TS1) >> >>,
        << "StatusSB",  << PingRequest(TS1), PingRequest(TS2),
                           StatusRequest >> >>,
        << "StatusCB",  << StatusResponse(STATUS_RESPONSE),
                           PingResponse(TS1) >> >>,
        << "LoginSB",   << LoginStart(<< 83 >>, UUID1),
                           LoginStart(<< 195, 169 >>, UUID1) >> >>,
        << "LoginCB",   << Disconnect(DISCONNECT_REASON),
                           Disconnect(<< >>) >> >> }}

\* Frames no encoder produces.
OddStreams ==
    {FramerInput(x[1], x[2], FALSE, << >>) : x \in {
        \* PingRequest frames holding 7 and 0 timestamp bytes
        << "StatusSB",  << 8, 1, 1, 2, 3, 4, 5, 6, 7 >> >>,
        << "StatusSB",  << 1, 1, 9, 9 >> >>,
        \* handshake frames ending after one port byte, before the port
        << "Handshake", << 7, 0, 132, 6, 2, 109, 99, 99 >> >>,
        << "Handshake", << 6, 0, 132, 6, 2, 109, 99 >> >>,
        \* LoginStart frame with 15 uuid bytes
        << "LoginSB",   << 18, 0, 1, 83, 0, 0, 0, 0, 0, 0, 0, 0, 0, 0, 0,
                           0, 0, 0, 1 >> >>,
        \* negative length, length prefix of five continuation bytes
        << "StatusSB",  << 255, 255, 255, 255, 15, 0 >> >>,
        << "StatusSB",  << 255, 255, 255, 255, 255, 0 >> >>,
        << "Handshake", << 128, 128, 128, 128, 8, 0 >> >>,
        << "LoginSB",   << 128, 255, 128, 255, 128, 1, 0 >> >>,
        \* StatusRequest frame with two bytes of padding, then a frame
        << "StatusSB",  << 3, 0, 1, 0, 1, 0 >> >> }}

RawStreams ==
    {FramerInput(T, b, FALSE, << >>) :
        T \in {"Handshake", "StatusSB", "LoginSB"}, b \in RawBuffers}

FramerInputs == FramedStreams \cup OddStreams \cup RawStreams

\* PacketDecoder::new() and an empty BytesMut, nothing fed yet.
NewFramer(in) ==
    [op |-> "decode", T |-> in.T, stream |-> in.stream, wf |-> in.wf,
     packets |-> in.packets,
     fed |-> 0,               \* bytes of the stream handed over so far
     bytewise |-> TRUE,       \* every piece so far was a single byte
     src |-> << >>,           \* the accumulated buffer
     needed |-> NoHint,       \* PacketDecoder::needed
     readable |-> FALSE,      \* bytes arrived since decode last asked for more
     out |-> << >>,           \* packets decoded so far
     call |-> [needed |-> NoHint, src |-> << >>],   \* the last decode call
     ret |-> [res |-> "idle"]]                      \* and what it returned

\* The next k bytes of the stream are appended to the buffer.
FramerArrive ==
    /\ probe.op = "decode"
    /\ ~probe.readable
    /\ probe.ret.res \notin {"err", "panic"}
    /\ \E k \in 1..(Len(probe.stream) - probe.fed) :
          probe' = [probe EXCEPT
                      !.src = @ \o SubSeq(probe.stream, probe.fed + 1,
                                          probe.fed + k),
                      !.fed = @ + k,
                      !.bytewise = (@ /\ k = 1),
                      !.readable = TRUE]
    /\ UNCHANGED << conn, scn, lock, state, children >>

\* The effect of one decode call returning r on decoder and buffer.
Polled(p, r) ==
    [p EXCEPT !.call = [needed |-> p.needed, src |-> p.src],
              !.ret = r,
              !.needed = r.needed,
              !.src = r.rest,
              !.readable = (r.res = "some"),
              !.out = IF r.res = "some" THEN Append(@, r.data) ELSE @]

\* decoder.decode(&mut src)
FramerDecode ==
    /\ probe.op = "decode"
    /\ probe.readable
    /\ \E r \in {decode(probe.T, probe.needed, probe.src)} :
          probe' = Polled(probe, r)
    /\ UNCHANGED << conn, scn, lock, state, children >>

\* The proxy itself is not running while a codec is examined.
Parked ==
    /\ conn = [c \in Conns |-> NewConn(FALSE)]
    /\ scn = [c \in Conns |-> 1]
    /\ lock = 0
    /\ state = 0
    /\ children = << >>

InitFramer ==
    /\ Parked
    /\ probe \in {NewFramer(in) : in \in FramerInputs}

NextFramer ==
    \/ FramerArrive
    \/ FramerDecode

SpecFramer == InitFramer /\ [][NextFramer]_vars

(***************************************************************************)
(* Properties of the framer                                                *)
(***************************************************************************)
\* C11: decoder trichotomy.  Whatever the accumulated buffer holds, a
\* decode call ends by asking for more bytes, by returning one packet, or
\* with a fatal error; it never aborts.  In particular a complete frame
\* whose payload is shorter than its packet type requires is a fatal
\* error.
C11_DecoderTrichotomy ==
    probe.op = "decode"
        => probe.ret.res \in {"idle", "none", "some", "err"}

\* The packets decode yields when it is called on the whole stream at
\* once, again and again until it returns no packet.
RECURSIVE DecodeAll(_, _, _)
DecodeAll(T, needed, src) ==
    LET More(r) ==
            IF r.res = "some"
            THEN << r.data >> \o DecodeAll(T, r.needed, r.rest)
            ELSE << >>
    IN  More(decode(T, needed, src))

\* The whole stream has been handed over and decode has asked for more.
Drained == probe.fed = Len(probe.stream) /\ ~probe.readable

\* C12: chunking independence.  For a stream of well-formed frames, in
\* whatever pieces it arrives (one byte at a time included), the packets
\* decoded so far are the first packets of what the whole stream decodes
\* to at once, which are the packets that were encoded; no call fails, and
\* once the whole stream has arrived every frame has been decoded, once.
C12_ChunkingIndependence ==
    (probe.op = "decode" /\ probe.wf)
        => /\ DecodeAll(probe.T, NoHint, probe.stream) = probe.packets
           /\ IsPrefix(probe.out, probe.packets)
           /\ probe.ret.res \in {"idle", "none", "some"}
           /\ Drained => probe.out = probe.packets

\* C12 witness: a stream of at least two frames arrived one byte at a
\* time and every packet has been decoded.
C12_Witness ==
    /\ probe.op = "decode"
    /\ probe.wf
    /\ probe.bytewise
    /\ Drained
    /\ Len(probe.packets) >= 2
    /\ probe.out = probe.packets

\* The length prefix at the head of the buffer of the last decode call.
Prefix == read_var_int(probe.call.src, 0)

\* The buffer of the last call ends inside the length prefix, or inside
\* the frame the prefix declares.
Incomplete ==
    \/ Prefix.st = "eof"
    \/ /\ Prefix.st = "ok"
       /\ Prefix.val >= 0
       /\ Prefix.offset + Prefix.val > Len(probe.call.src)

\* The buffer of the last call holds the length prefix and all the bytes
\* of the frame it declares.
Complete ==
    /\ Prefix.st = "ok"
    /\ Prefix.val >= 0
    /\ Prefix.offset + Prefix.val <= Len(probe.call.src)

Called == probe.op = "decode" /\ probe.ret.res # "idle"

\* C13: NeedMore leaves the buffer alone and is idempotent.  A decode call
\* on a buffer that ends inside the length prefix or inside the declared
\* frame returns NeedMore; and whenever decode returns NeedMore the buffer
\* is what it was, and decode called again on it returns NeedMore again,
\* with the same hint and the buffer still unchanged.
C13_NeedMoreIdempotent ==
    Called
        => /\ Incomplete => probe.ret.res = "none"
           /\ probe.ret.res = "none"
                => /\ probe.ret.rest = probe.call.src
                   /\ decode(probe.T, probe.ret.needed, probe.call.src)
                        = NeedMore(probe.ret.needed, probe.call.src)

\* C13 witness: decode returned NeedMore on a buffer holding a length
\* prefix and a part of the frame, with the hint set by an earlier call.
C13_Witness ==
    /\ Called
    /\ probe.ret.res = "none"
    /\ probe.call.needed # NoHint
    /\ Prefix.st = "ok"
    /\ Len(probe.call.src) > Prefix.offset
    /\ Incomplete

\* C18: a successful decode consumes exactly one frame.  Whenever decode
\* returns a packet, the bytes split off the buffer are the length prefix
\* followed by exactly the declared number of bytes, and what stays in the
\* buffer starts at the first byte behind the frame, also when the payload
\* decoder read fewer bytes than the frame declares.
C18_ConsumesExactlyOneFrame ==
    Called /\ probe.ret.res = "some"
        => /\ probe.ret.bytes
                = Take(probe.call.src, Prefix.offset + Prefix.val)
           /\ probe.ret.rest
                = Drop(probe.call.src, Prefix.offset + Prefix.val)

\* C19: a complete frame is never answered with NeedMore.  Whenever the
\* buffer of a decode call holds a length prefix L >= 0 and at least L
\* further bytes, the call returns a packet or a fatal error, for L = 0
\* and for a packet id cut off by the frame end as well.
C19_CompleteFrameNeverStalls ==
    Called /\ Complete => probe.ret.res # "none"

\* Where the frame at the head of the buffer of the last call ends.
FrameEnd == Prefix.offset + Prefix.val

\* The frame at the head of the buffer of the last call, nothing behind it.
FrameAlone == Take(probe.call.src, FrameEnd)

\* A field of the head frame's payload would extend past the frame end:
\* the payload decoder, given the frame and nothing else, runs out of
\* bytes.
FieldCut ==
    /\ Complete
    /\ read_var_int(FrameAlone, Prefix.offset).st = "ok"
    /\ decode_packet(probe.T, read_var_int(FrameAlone, Prefix.offset).val,
                     FrameAlone,
                     read_var_int(FrameAlone, Prefix.offset).offset).st
            \in {"eof", "panic"}

\* C22: frame view narrowing.  When the buffer holds a complete frame,
\* decode answers as it does on that frame alone, whatever follows it in
\* the buffer; a packet it returns takes no byte from behind the frame
\* end; a call that returns no packet leaves the whole buffer in place;
\* and a field that would extend past the frame end makes decode return
\* an error.
C22_FrameViewNarrowing ==
    Called /\ Complete
        => /\ probe.ret.res = "some" => Len(probe.ret.bytes) <= FrameEnd
           /\ probe.ret.res # "some" => probe.ret.rest = probe.call.src
           /\ \E alone \in {decode(probe.T, probe.call.needed, FrameAlone)} :
                  /\ alone.res = probe.ret.res
                  /\ alone.res = "some" => alone.data = probe.ret.data
           /\ FieldCut => probe.ret.res = "err"

\* The narrowing of C22 without its last clause: what lies behind the
\* frame end is neither read nor consumed.
C22_NothingBehindTheFrame ==
    Called /\ Complete
        => /\ probe.ret.res = "some" => Len(probe.ret.bytes) <= FrameEnd
           /\ probe.ret.res # "some" => probe.ret.rest = probe.call.src
           /\ \E alone \in {decode(probe.T, probe.call.needed, FrameAlone)} :
                  /\ alone.res = probe.ret.res
                  /\ alone.res = "some" => alone.data = probe.ret.data
           /\ FieldCut => probe.ret.res \in {"err", "panic"}

\* The first n bytes of the buffer of the last call are there and all
\* carry the continuation bit.
Continued(n) ==
    /\ Len(probe.call.src) >= n
    /\ \A k \in 1..n : probe.call.src[k] >= 128

\* The length prefix of the last call ends with its fifth byte, and that
\* byte sets bit 31 of the length.
NegativeLength ==
    /\ Continued(4)
    /\ Len(probe.call.src) >= 5
    /\ probe.call.src[5] < 128
    /\ (probe.call.src[5] \div 8) % 2 = 1

InvalidData == probe.ret.res = "err" /\ probe.ret.kind = "invalid"

\* C21: length-prefix classification.  A decode call on a buffer that
\* ends before the length VarInt does returns NeedMore; on a buffer that
\* starts with five bytes carrying the continuation bit it fails with
\* invalid data, whatever the sixth byte is; and on a buffer whose length
\* VarInt decodes to a negative number it fails with invalid data.
C21_LengthPrefixClassification ==
    Called
        => /\ Len(probe.call.src) < 5 /\ Continued(Len(probe.call.src))
                => probe.ret.res = "none"
           /\ Continued(5) => InvalidData
           /\ NegativeLength => InvalidData

\* C21 witness: the bytes came one at a time, the calls on the first four
\* answered NeedMore, and the call on the fifth failed on a negative
\* length.
C21_Witness ==
    /\ Called
    /\ probe.bytewise
    /\ Len(probe.call.src) = 5
    /\ NegativeLength
    /\ InvalidData

(***************************************************************************)
(* The codec on its own: a value is written and what was written is read   *)
(* back; a packet is encoded and the frame is decoded.                     *)
(***************************************************************************)
\* i32 values written as VarInt: the small ones, those around every change
\* of encoded size, and the ends of the range.
VarInts ==
    (-3..300)
    \cup {-2147483647 - 1, -2147483647, -268435456, -129, -128}
    \cup {16383, 16384, 2097151, 2097152, 268435455, 268435456, 2147483647}

Timestamps == {TS1, TS2, << 0, 0, 0, 0 >>, << 65535, 65535, 65535, 65535 >>}

\* Strings: empty, ASCII, two-byte characters, and lengths around the step
\* of the length prefix from one byte to two.
Strings ==
    {<< >>, << 109, 99 >>, << 195, 169, 83 >>, Take(STATUS_RESPONSE, 127),
     Take(STATUS_RESPONSE, 128), STATUS_RESPONSE, DISCONNECT_REASON}

\* Packets of every variant of every phase.
Packets ==
    {Handshake(v, a, p, ns) :
        v \in {-1, 0, 127, 128, 772, 2147483647},
        a \in {<< >>, << 109, 99 >>, << 195, 169, 83 >>},
        p \in {0, 255, 256, 25565, 65535},
        ns \in {"Status", "Login", "Transfer"}}
    \cup {StatusRequest}
    \cup {PingRequest(ts) : ts \in Timestamps}
    \cup {PingResponse(ts) : ts \in Timestamps}
    \cup {StatusResponse(js) : js \in Strings}
    \cup {LoginStart(name, uuid) :
            name \in {<< >>, << 83 >>, << 195, 169, 83 >>},
            uuid \in {UUID1, << 65535, 0, 65535, 0, 65535, 0, 65535, 0 >>}}
    \cup {Disconnect(reason) : reason \in Strings}

\* The Protocol implementation a packet belongs to.
ProtocolOf(item) ==
    CASE item.kind = "Handshake" -> "Handshake"
      [] item.kind \in {"StatusRequest", "PingRequest"} -> "StatusSB"
      [] item.kind \in {"StatusResponse", "PingResponse"} -> "StatusCB"
      [] item.kind = "LoginStart" -> "LoginSB"
      [] item.kind = "Disconnect" -> "LoginCB"

\* write_var_int(int, dest)
WriteVarInt ==
    /\ probe.op = "var_int"
    /\ probe.stage = "input"
    /\ probe' = [probe EXCEPT !.stage = "written",
                              !.written = write_var_int(probe.int)]
    /\ UNCHANGED << conn, scn, lock, state, children >>

\* read_var_int on the bytes the writer produced.
ReadVarInt ==
    /\ probe.op = "var_int"
    /\ probe.stage = "written"
    /\ probe.written.st = "ok"
    /\ probe' = [probe EXCEPT !.stage = "read",
                              !.back = read_var_int(probe.written.bytes, 0)]
    /\ UNCHANGED << conn, scn, lock, state, children >>

\* PacketEncoder::encode(item, dst) on an empty dst
EncodePacket ==
    /\ probe.op = "packet"
    /\ probe.stage = "input"
    /\ probe' = [probe EXCEPT !.stage = "encoded",
                              !.encoded = encode(probe.item)]
    /\ UNCHANGED << conn, scn, lock, state, children >>

\* PacketDecoder::decode on the frame the encoder produced.
DecodePacket ==
    /\ probe.op = "packet"
    /\ probe.stage = "encoded"
    /\ probe.encoded.st = "ok"
    /\ probe' = [probe EXCEPT
                   !.stage = "decoded",
                   !.decoded = decode(ProtocolOf(probe.item), NoHint,
                                      probe.encoded.bytes)]
    /\ UNCHANGED << conn, scn, lock, state, children >>

InitCodec ==
    /\ Parked
    /\ probe \in {[op |-> "var_int", int |-> v, stage |-> "input",
                   written |-> Wrote(<< >>), back |-> Ok(0, 0)] :
                     v \in VarInts}
            \cup {[op |-> "packet", item |-> P, stage |-> "input",
                   encoded |-> Wrote(<< >>), decoded |-> [res |-> "idle"]] :
                     P \in Packets}

NextCodec ==
    \/ WriteVarInt
    \/ ReadVarInt
    \/ EncodePacket
    \/ DecodePacket

SpecCodec == InitCodec /\ [][NextCodec]_vars

(***************************************************************************)
(* Properties of the codec                                                 *)
(***************************************************************************)
\* C14: VarInt round trip.  For every i32 v, negative ones included,
\* write_var_int(v) returns having written var_int_size(v) bytes, between
\* 1 and 5 and 5 when v is negative, and read_var_int of these bytes
\* returns v, having read them all.
C14_VarIntRoundTrip ==
    (probe.op = "var_int" /\ probe.stage # "input")
        => /\ probe.written.st = "ok"
           /\ Len(probe.written.bytes) = var_int_size(probe.int)
           /\ Len(probe.written.bytes) \in 1..5
           /\ probe.int < 0 => Len(probe.written.bytes) = 5
           /\ probe.stage = "read"
                => probe.back = Ok(probe.int, Len(probe.written.bytes))

\* The frame of a packet with id `id` and a payload of `size` bytes:
\* <VarInt id-size + size><VarInt id><payload>.
IsFrameOf(frame, id, size) ==
    LET Laid(prefix, number) ==
            /\ prefix.st = "ok"
            /\ number.st = "ok"
            /\ Len(frame) = Len(prefix.bytes) + var_int_size(id) + size
            /\ Take(frame, Len(prefix.bytes) + var_int_size(id))
                 = prefix.bytes \o number.bytes
    IN  Laid(write_var_int(var_int_size(id) + size), write_var_int(id))

\* C15: packet round trip through the framer.  For every packet P the
\* encoder returns (its size assertion holds) having written
\* <VarInt total_length><VarInt id><payload> with total_length =
\* var_int_size(id) + encoded_size(P), and decode of that frame returns a
\* packet equal to P whose buffer is the whole frame, leaving nothing.
C15_PacketRoundTrip ==
    (probe.op = "packet" /\ probe.stage # "input")
        => /\ probe.encoded.st = "ok"
           /\ IsFrameOf(probe.encoded.bytes, packet_number(probe.item),
                        encoded_size(probe.item))
           /\ probe.stage = "decoded"
                => /\ probe.decoded.res = "some"
                   /\ probe.decoded.data = probe.item
                   /\ probe.decoded.bytes = probe.encoded.bytes
                   /\ probe.decoded.rest = << >>

(***************************************************************************)
(* Properties across connections                                           *)
(***************************************************************************)
\* C16: connection isolation.  A connection is only ever terminated by a
\* failure of its own: among connections that dial and call spawn_once, one
\* that has ended either failed to write to the backend it reached or got
\* the error of the launch its own spawn_once call attempted; no
\* connection is aborted because of what failed on another one, and
\* spawn_once stays usable.
C16_ConnectionIsolation ==
    \A c \in Conns :
        conn[c].pc = "closed"
            => \/ conn[c].spawn = "none" /\ conn[c].result = "io"
               \/ conn[c].spawn = "err" /\ conn[c].result = "io"
               \/ conn[c].phase = "forward"

\* C20: a failed spawn leaves the supervisor retryable.  After a call
\* whose launch of the command failed, a spawn_once call that finds no
\* child running (nothing stored, or a stored handle whose task has
\* finished) attempts the launch again: it returns true or the error of
\* that launch, it neither aborts nor returns false.
C20_FailedSpawnRetryable ==
    [][\A d \in Conns :
          (/\ conn[d].spawn = "none"
           /\ conn'[d].spawn # "none"
           /\ \E c \in Conns : conn[c].spawn = "err"
           /\ (state = 0 \/ is_finished(state)))
            => conn'[d].spawn \in {"true", "err"}]_vars

(***************************************************************************)
(* Progress.  The runtime keeps running a task that can take a step: the   *)
(* handler decodes what is buffered, the 5 second timer of a pending read  *)
(* fires, connect returns, and the mutex (which queues its waiters) is     *)
(* handed to a caller that keeps asking for it.  Nothing is assumed of     *)
(* the client or of the child process.                                     *)
(***************************************************************************)
Fairness ==
    \A c \in Conns :
        /\ WF_vars(Decode(c))
        /\ WF_vars(Timeout(c))
        /\ WF_vars(Dial(c))
        /\ SF_vars(SpawnLock(c))
        /\ WF_vars(SpawnCheck(c))
        /\ WF_vars(SpawnLaunch(c))

SpecLive == Init /\ [][Next]_vars /\ Fairness

\* The handler of connection c is running and is not forwarding.
Local(c) == conn[c].pc \notin {"unused", "idle", "forward", "closed"}

\* C17: read timeouts bound local connections.  A connection ended by the
\* timer is closed with the timeout error and nothing happens on it any
\* more (no retry); and every connection whose handler is running and not
\* forwarding eventually is closed (or forwarding), whatever the client
\* sends or withholds.
C17_TimeoutsBoundConnections ==
    /\ [][\A c \in Conns :
             conn[c].result = "timeout"
                => conn[c].pc = "closed" /\ conn'[c] = conn[c]]_vars
    /\ \A c \in Conns :
          Local(c) ~> (conn[c].pc \in {"closed", "forward"})

\* C17 witness: the client of a status connection withheld the rest of its
\* bytes and the connection was ended by the timer.
C17_Witness ==
    \E c \in Conns :
        /\ conn[c].phase = "status"
        /\ conn[c].pc = "closed"
        /\ conn[c].result = "timeout"
        /\ conn[c].pos < Len(Stream(c))

(***************************************************************************)
(* The phases of a connection                                              *)
(***************************************************************************)
\* The dial of c failed and its spawn_once call has returned or unwound.
SpawnReturned(c) == conn[c].dials = 1 /\ conn[c].spawn # "none"

\* What holds of the dial, of spawn_once and of the phase at every moment.
PhaseOrder(c) ==
    /\ conn[c].dials <= 1
    /\ conn[c].dials = 1 => conn[c].hs.data.kind = "Handshake"
    /\ InSpawnOnce(c) \/ conn[c].spawn # "none" \/ conn[c].seen # "none"
            => /\ conn[c].dials = 1
               /\ conn[c].backend = << >>
               /\ conn[c].phase # "forward"
    /\ conn[c].phase = "forward" => conn[c].dials = 1
    /\ conn[c].phase \in {"status", "login"}
            => /\ conn[c].spawn \in {"true", "false"}
               /\ conn[c].phase = local_handler(conn[c].hs.data.next_state)
    /\ conn[c].phase # "none" => conn[c].pc \in {conn[c].phase, "closed"}

\* What holds of every step: the dial is counted once and the phase, once
\* entered, stays.
PhaseStep(c) ==
    /\ conn'[c].dials \in {conn[c].dials, conn[c].dials + 1}
    /\ conn'[c].dials # conn[c].dials => conn[c].pc = "dial"
    /\ conn[c].phase # "none" => conn'[c].phase = conn[c].phase
    /\ conn[c].pc = "closed" => conn'[c] = conn[c]

\* C23: one-way connection state machine.  A connection dials the backend
\* at most once, and only with a valid handshake in hand; spawn_once is
\* called exactly on the connections whose dial failed, never on one that
\* forwards; a connection whose dial failed enters LocalStatus or
\* LocalLogin once spawn_once is over; and a connection that has entered
\* Forwarding, LocalStatus or LocalLogin stays in that phase until it is
\* closed.
C23_OneWayStateMachine ==
    /\ [](\A c \in Conns :
            /\ PhaseOrder(c)
            /\ SpawnReturned(c) => conn[c].phase \in {"status", "login"})
    /\ [][\A c \in Conns : PhaseStep(c)]_vars

\* C23 without the entry into local handling after spawn_once: the order
\* of dial, spawn_once and phase, and no change of phase.
C23_NoPhaseRollback ==
    /\ [](\A c \in Conns : PhaseOrder(c))
    /\ [][\A c \in Conns : PhaseStep(c)]_vars

(***************************************************************************)
(* The supervisor under fair scheduling: the mutex is granted to every     *)
(* caller that keeps asking for it, and a task that holds it runs on.      *)
(* Nothing makes a child exit.                                             *)
(***************************************************************************)
SupFairness ==
    \A c \in Conns :
        /\ SF_vars(SpawnLock(c))
        /\ WF_vars(SpawnCheck(c))
        /\ WF_vars(SpawnLaunch(c))

SpecSupLive == InitSup /\ [][NextSup]_vars /\ SupFairness

\* The child the supervisor tracks has not exited.
ChildRunning == state # 0 /\ children[state].proc = "running"

\* C24: spawn_once never waits on a running child.  The lock is held only
\* by a caller that is testing the state or launching the command; a call
\* that finds the child running returns false at once; and every call
\* that is waiting for the lock while the child runs returns false unless
\* the child exits first, also when the child never exits.
C24_NoWaitOnRunningChild ==
    /\ [](\A c \in Conns :
            /\ lock = c <=> conn[c].pc \in {"spawn_check", "spawn_launch"}
            /\ conn[c].seen = "running" => conn[c].spawn = "false")
    /\ \A c \in Conns :
          (conn[c].pc = "spawn_lock" /\ ChildRunning)
              ~> (conn[c].spawn = "false" \/ ~ChildRunning)

\* C24 witness: every caller but the one that launched the child has
\* returned false, and the child is still running.
C24_Witness ==
    /\ ChildRunning
    /\ \E d \in Conns :
          /\ conn[d].spawn = "true"
          /\ \A c \in Conns \ {d} :
                /\ conn[c].spawn = "false"
                /\ conn[c].began = state

====
